---- MODULE Spec2Model ----
\* Join-semilattice interface of src/lattices/lattice.h: the abstract
\* Lattice<L, T> (get, join) and the free comparison operators ==, != and <=
\* derived from it.  Concrete lattices are not part of lattice.h; three of
\* them (integer max, boolean or, set union) instantiate the interface here.
EXTENDS Integers, FiniteSets, Sequences, TLC

\* ---------------------------------------------------------------- bounds
NumInst == 3        \* lattice instances (replicas) alive in the program
MaxVal == 3         \* integer-max lattice holds 0..MaxVal
NumElems == 2       \* set-union lattice holds subsets of 1..NumElems

Inst == 1..NumInst
Kinds == {"max", "or", "set"}

VARIABLES
  inst,      \* inst[i]: the lattice object i, a record [kind, val]
  contrib,   \* contrib[i]: the initial values merged into replica i so far
  last       \* the most recent call: operation, operands, result and the
             \* left operand (self) as it was before the call

vars == <<inst, contrib, last>>

\* ------------------------------------------------ concrete lattice types
\* The values of the domain type T of each concrete lattice.
Domain(k) ==
  IF k = "max" THEN 0..MaxVal
  ELSE IF k = "or" THEN BOOLEAN
  ELSE SUBSET (1..NumElems)

\* All lattice objects of one concrete type L.
Objects(k) == { [kind |-> k, val |-> v] : v \in Domain(k) }

\* L::join of the concrete lattices: the merged object.
JoinOp(l, r) ==
  IF l.kind = "max"
    THEN [kind |-> "max", val |-> IF r.val > l.val THEN r.val ELSE l.val]
  ELSE IF l.kind = "or"
    THEN [kind |-> "or", val |-> (l.val \/ r.val)]
  ELSE [kind |-> "set", val |-> (l.val \cup r.val)]

\* The order each concrete domain carries on its own (integer <=,
\* implication, subset), independent of join.
NaturalLeq(l, r) ==
  IF l.kind = "max" THEN l.val <= r.val
  ELSE IF l.kind = "or" THEN (l.val => r.val)
  ELSE l.val \subseteq r.val

\* ------------------------------------------------------- Lattice<L, T>
\* const T& get() const
get(l) == l.val

\* self.join(other) on the heap h: only the object `self` is assigned; `other`
\* is a const reference.
JoinCallBoth(h, self, other) ==
  [k \in Inst |->
     IF k = self THEN JoinOp(h[self], h[other])
     ELSE IF k = other THEN JoinOp(h[other], h[self])
     ELSE h[k]]

JoinCallWrongTarget(h, self, other) ==
  [h EXCEPT ![other] = JoinOp(h[other], h[self])]

JoinCall(h, self, other) ==
  [h EXCEPT ![self] = JoinOp(h[self], h[other])]

\* ------------------------------------------------- comparison operators
OpEqNegated(l, r) == get(l) # get(r)

\* operator==(const T& l, const T& r)
OpEq(l, r) == get(l) = get(r)

OpNeqSame(l, r) == get(l) = get(r)

\* operator!=(const T& l, const T& r)
OpNeq(l, r) == get(l) # get(r)

OpLeqNoJoin(l, r) == get(l) = get(r)

OpLeqSwapped(l, r) ==
  LET c == JoinOp(r, l) IN get(c) = get(l)

OpLeqNegated(l, r) ==
  LET c == JoinOp(l, r) IN get(c) # get(r)

\* Body of operator<=: l is the by-value parameter; r is joined into it and
\* its value is compared with r's.
OpLeq(l, r) ==
  LET c == JoinOp(l, r) IN get(c) = get(r)

\* A call l <= r with the caller's objects h[i] and h[j].  The left operand
\* is passed by value, so the join happens on a copy and the heap is kept.
LeqCallByRef(h, i, j) ==
  LET h2 == [h EXCEPT ![i] = JoinOp(h[i], h[j])]
  IN  [heap |-> h2, ret |-> (get(h2[i]) = get(h2[j]))]

LeqCall(h, i, j) ==
  [heap |-> h, ret |-> OpLeq(h[i], h[j])]

\* ---------------------------------------------------------------- state
Init ==
  /\ \E k \in Kinds : inst \in [Inst -> Objects(k)]
  /\ contrib = [i \in Inst |-> {inst[i]}]
  /\ last = [op |-> "none", i |-> 1, j |-> 1, ret |-> FALSE, old |-> inst[1]]

\* x.get(): the value returned is get(last.old)
Get(i) ==
  /\ inst' = inst
  /\ last' = [op |-> "get", i |-> i, j |-> i, ret |-> FALSE, old |-> inst[i]]
  /\ UNCHANGED contrib

\* x.join(y)
Join(i, j) ==
  /\ inst' = JoinCall(inst, i, j)
  /\ last' = [op |-> "join", i |-> i, j |-> j, ret |-> FALSE, old |-> inst[i]]
  /\ UNCHANGED contrib

\* x == y
Eq(i, j) ==
  /\ last' = [op |-> "eq", i |-> i, j |-> j,
              ret |-> OpEq(inst[i], inst[j]), old |-> inst[i]]
  /\ UNCHANGED <<inst, contrib>>

\* x != y
Neq(i, j) ==
  /\ last' = [op |-> "neq", i |-> i, j |-> j,
              ret |-> OpNeq(inst[i], inst[j]), old |-> inst[i]]
  /\ UNCHANGED <<inst, contrib>>

\* x <= y
Leq(i, j) ==
  /\ LET res == LeqCall(inst, i, j)
     IN  /\ inst' = res.heap
         /\ last' = [op |-> "leq", i |-> i, j |-> j,
                     ret |-> res.ret, old |-> inst[i]]
  /\ UNCHANGED contrib

Next ==
  \/ \E i \in Inst : Get(i)
  \/ \E i, j \in Inst : Join(i, j)
  \/ \E i, j \in Inst : Eq(i, j)
  \/ \E i, j \in Inst : Neq(i, j)
  \/ \E i, j \in Inst : Leq(i, j)

Spec == Init /\ [][Next]_vars

\* Replicas merging one another: x.join(y) where every replica also keeps
\* the record of which initial values have reached it.
Merge(i, j) ==
  /\ inst' = JoinCall(inst, i, j)
  /\ contrib' = [contrib EXCEPT ![i] = contrib[i] \cup contrib[j]]
  /\ UNCHANGED last

NextMerge == \E i, j \in Inst : Merge(i, j)

SpecMerge == Init /\ [][NextMerge]_vars

\* ------------------------------------------------------------ properties
\* The right operand of the most recent call, as it was when the call was made
\* (a call x.op(x) or x <= x has the left operand as its right operand).
LastRight == IF last.i = last.j THEN last.old ELSE inst[last.j]

\* C1: a call l <= r returns true exactly when joining r into a copy of l
\* gives a value whose get() equals r.get(); on the concrete lattices that is
\* the usual order of the domain (3 <= 7 is true, 7 <= 3 is false).
C1_LeqResult ==
  last.op = "leq" =>
    /\ last.ret = (get(JoinOp(last.old, inst[last.j])) = get(inst[last.j]))
    /\ last.ret = NaturalLeq(last.old, inst[last.j])

C1_Witness ==
  /\ last.op = "leq"
  /\ last.old.kind = "max"
  /\ ~last.ret
  /\ get(last.old) = MaxVal
  /\ get(inst[last.j]) < MaxVal

\* C2: a call l <= r leaves every object of the caller, l and r included,
\* exactly as it was: the join is applied to the by-value copy of l.
C2_LeqNoMutation ==
  [][last'.op = "leq" => inst' = inst]_vars

C2_Witness ==
  /\ last.op = "leq"
  /\ last.i # last.j
  /\ get(JoinOp(last.old, inst[last.j])) # get(last.old)
  /\ inst[last.i] = last.old

\* C3: two replicas that have merged the same set of values, in whatever
\* order and grouping, hold equal values.
C3_MergeOrderIrrelevant ==
  \A i, j \in Inst : contrib[i] = contrib[j] => OpEq(inst[i], inst[j])

C3_Witness ==
  \E i, j \in Inst :
    /\ i # j
    /\ contrib[i] = contrib[j]
    /\ Cardinality(contrib[i]) >= 3
    /\ inst[i] \notin contrib[i]

\* C4: join never decreases a value: in every step each instance's new value
\* is above its old one, and after x.join(y) both the old x and y are below
\* the new x.
C4_JoinMonotone ==
  [][/\ \A k \in Inst : OpLeq(inst[k], inst'[k])
     /\ last'.op = "join" =>
          /\ OpLeq(last'.old, inst'[last'.i])
          /\ OpLeq(inst[last'.j], inst'[last'.i])]_vars

C4_Witness ==
  /\ last.op = "join"
  /\ get(inst[last.i]) # get(last.old)
  /\ ~OpLeq(inst[last.i], last.old)

\* C5: after x.join(y) the value of x is the least upper bound of the old x
\* and y under <=: it is above both, and below every z that is above both.
C5_JoinIsLub ==
  last.op = "join" =>
    LET new == inst[last.i]
        a == last.old
        b == LastRight
    IN  /\ OpLeq(a, new)
        /\ OpLeq(b, new)
        /\ \A z \in Objects(new.kind) :
             (OpLeq(a, z) /\ OpLeq(b, z)) => OpLeq(new, z)

C5_Witness ==
  /\ last.op = "join"
  /\ inst[last.i] # last.old
  /\ \E z \in Objects(last.old.kind) :
       /\ z # inst[last.i]
       /\ OpLeq(last.old, z)
       /\ OpLeq(LastRight, z)
  /\ \E y \in Objects(last.old.kind) :
       /\ OpLeq(last.old, y)
       /\ ~OpLeq(LastRight, y)
       /\ ~OpLeq(inst[last.i], y)

\* C6: antisymmetry: x <= y and y <= x together imply x == y.
C6_Antisymmetry ==
  \A i, j \in Inst :
    (OpLeq(inst[i], inst[j]) /\ OpLeq(inst[j], inst[i]))
      => OpEq(inst[i], inst[j])

C6_Witness ==
  /\ last.op = "leq"
  /\ last.i # last.j
  /\ last.ret
  /\ OpLeq(inst[last.j], inst[last.i])
  /\ \E k \in Inst : ~OpLeq(inst[k], inst[last.i])

\* C7: x == y is true iff x.get() equals y.get(), and x != y is true exactly
\* when x == y is false, for all pairs and for the results of the calls.
C7_EqNeqComplement ==
  /\ \A i, j \in Inst :
       /\ OpEq(inst[i], inst[j]) <=> (inst[i].val = inst[j].val)
       /\ OpNeq(inst[i], inst[j]) <=> ~OpEq(inst[i], inst[j])
  /\ last.op = "eq" => (last.ret <=> (last.old.val = inst[last.j].val))
  /\ last.op = "neq" => (last.ret <=> ~OpEq(last.old, inst[last.j]))

C7_Witness ==
  /\ last.op = "neq"
  /\ last.ret
  /\ \E k \in Inst : k # last.i /\ OpEq(inst[k], inst[last.i])

\* C8: x.join(y) changes x only, and get() changes nothing: the value get()
\* returns for an instance changes only in a step that joins into that
\* instance, and get() returns the value the instance holds.
C8_JoinFrame ==
  [][/\ \A k \in Inst :
          \/ last'.op = "join" /\ k = last'.i
          \/ inst'[k] = inst[k]
     /\ last'.op = "get" =>
          /\ inst' = inst
          /\ get(last'.old) = get(inst'[last'.i])]_vars

C8_Witness ==
  /\ last.op = "join"
  /\ last.i # last.j
  /\ inst[last.i] # last.old
  /\ inst[last.j] # inst[last.i]

\* C9: reflexivity: x <= x is true for every value, also as the result of a
\* call with the same object on both sides.
C9_Reflexive ==
  /\ \A i \in Inst : OpLeq(inst[i], inst[i])
  /\ (last.op = "leq" /\ last.i = last.j) => last.ret

C9_Witness ==
  /\ last.op = "leq"
  /\ last.i = last.j
  /\ last.ret

\* C10: transitivity: x <= y and y <= z together imply x <= z.
C10_Transitive ==
  \A i, j, k \in Inst :
    (OpLeq(inst[i], inst[j]) /\ OpLeq(inst[j], inst[k]))
      => OpLeq(inst[i], inst[k])

C10_Witness ==
  \E i, j, k \in Inst :
    /\ OpLeq(inst[i], inst[j]) /\ ~OpLeq(inst[j], inst[i])
    /\ OpLeq(inst[j], inst[k]) /\ ~OpLeq(inst[k], inst[j])
    /\ last.op = "leq" /\ last.i = i /\ last.j = k /\ last.ret

====
